---- MODULE Spec2Model ----
(***************************************************************************)
(* Model of the libcurl wrapper of docker/src/http.h and http.cpp:         *)
(* class Curl (the request handle), class CurlStringList (the owner of a   *)
(* native curl_slist) and Curl::get.  The native library is an opaque      *)
(* collaborator: every native call that can fail returns a result chosen   *)
(* nondeterministically, and the model counts the native calls made.       *)
(*                                                                         *)
(* Each Curl object is driven by its own thread: the constructor and get   *)
(* are sequences of steps, one per native call, and the steps of distinct  *)
(* objects interleave.                                                     *)
(***************************************************************************)
EXTENDS Integers, Sequences, FiniteSets, TLC

(* ---------------------------- bounds ----------------------------------- *)
MaxObjs == 2          \* Curl objects the process creates
MaxLists == 2         \* native curl_slist allocations
MaxAdapters == 2      \* free-standing CurlStringList objects
MaxItems == 2         \* entries appended to one free-standing list
MaxCleanupCalls == 3  \* curl_global_cleanup calls after which no move-assignment is taken

(* ------------------------ program constants ---------------------------- *)
CURLE_OK == 0
NullPtr == 0

(* native failure statuses a call may report (CURLE_URL_MALFORMAT,          *)
(* CURLE_OUT_OF_MEMORY)                                                     *)
FailCodes == {3, 27}
Codes == {CURLE_OK} \cup FailCodes

Objs == 1..MaxObjs
ListIds == 1..MaxLists
\* adapter o (o \in Objs) is the local `headers` of the get running on o;
\* the others are free-standing CurlStringList objects
FreeAdapters == (MaxObjs + 1)..(MaxObjs + MaxAdapters)
Adapters == Objs \cup FreeAdapters

HeaderNames == {"Accept", "Host"}
HeaderValues == {"a", "b"}
\* HeaderMap: unique keys, any subset of the names
HeaderMaps == UNION {[D -> HeaderValues] : D \in SUBSET HeaderNames}
\* lines appended to a free-standing list
Lines == {"Accept: a", "Host: b"}
\* what a caller may read out of a std::string return slot that get never
\* constructed (flowing off the end of a non-void function)
Indeterminate == {"", "ab"}

VARIABLES
    objState,          \* per Curl object: none | ctor | alive | init_failed |
                       \* failed | destroyed
    m_handle,          \* Curl::m_handle
    handle,            \* the local `handle` of the constructor of each object
    movedFrom,         \* the object was the source of the last move it took part in
    globalInitCalls,   \* curl_global_init calls made
    globalCleanupCalls,\* curl_global_cleanup calls made
    easyCreated,       \* native transfer handles curl_easy_init returned
    easyCleanupCalls,  \* per native transfer handle: curl_easy_cleanup calls
    pc,                \* position of the get running on each object
    headers,           \* the HeaderMap argument of that get
    remaining,         \* keys the range-for has not visited yet
    response,          \* the local `response` of that get
    delivered,         \* chunks the transport passed to the write callback
    result,            \* what the last get gave its caller
    nativeSink,        \* per native handle: the `response` the installed callback captured
    nativeHdr,         \* per native handle: the curl_slist set as CURLOPT_HTTPHEADER
    getsStarted,       \* calls of get so far
    lastCall,          \* the latest native call made by a get on each object
    lists,             \* native lists: entries and curl_slist_free_all count
    nextList,          \* next native list to allocate
    adState,           \* per CurlStringList: none | alive | destroyed
    m_slist,           \* CurlStringList::m_slist
    adMovedFrom,
    lastOp             \* the CurlStringList operation that made the last step

vars == <<objState, m_handle, handle, movedFrom, globalInitCalls,
          globalCleanupCalls, easyCreated, easyCleanupCalls, pc,
          headers, remaining, response, delivered, result, nativeSink,
          nativeHdr, getsStarted, lastCall, lists, nextList, adState,
          m_slist, adMovedFrom, lastOp>>

curlVars == <<objState, m_handle, handle, movedFrom, globalInitCalls,
              globalCleanupCalls, easyCreated, easyCleanupCalls>>
getVars == <<pc, headers, remaining, response, delivered, result, nativeSink,
             nativeHdr, getsStarted, lastCall>>
listVars == <<lists, nextList, adState, m_slist, adMovedFrom>>

\* what get gave its caller: bytes, or the exception thrown
Res(kind, msg, code, val) == [kind |-> kind, msg |-> msg, code |-> code, val |-> val]
\* the code of an error constructed without a status
NoCode == -1
NoResult == Res("none", "", NoCode, "")
NoCall == [call |-> "none", r |-> 0]
\* the accumulator a write callback captured by reference: the `response` of
\* a get on object `of`, live until that get returns
Sink(o, live) == [of |-> o, live |-> live]
NoSink == Sink(0, FALSE)
\* lastOp: a is the adapter operated on, b the source of a move or, for an
\* append, 1 when curl_slist_append returned a list and 0 when it returned null
NoOp == [op |-> "none", a |-> 0, b |-> 0]

Init ==
    /\ objState = [o \in Objs |-> "none"]
    /\ m_handle = [o \in Objs |-> NullPtr]
    /\ handle = [o \in Objs |-> NullPtr]
    /\ movedFrom = [o \in Objs |-> FALSE]
    /\ globalInitCalls = 0
    /\ globalCleanupCalls = 0
    /\ easyCreated = 0
    /\ easyCleanupCalls = [h \in 1..MaxObjs |-> 0]
    /\ pc = [o \in Objs |-> "idle"]
    /\ headers = [o \in Objs |-> <<>>]
    /\ remaining = [o \in Objs |-> {}]
    /\ response = [o \in Objs |-> ""]
    /\ delivered = [o \in Objs |-> <<>>]
    /\ result = [o \in Objs |-> NoResult]
    /\ nativeSink = [h \in 0..MaxObjs |-> NoSink]
    /\ nativeHdr = [h \in 0..MaxObjs |-> NullPtr]
    /\ getsStarted = 0
    /\ lastCall = [o \in Objs |-> NoCall]
    /\ lists = [l \in ListIds |-> [items |-> <<>>, freed |-> 0]]
    /\ nextList = 1
    /\ adState = [a \in Adapters |-> "none"]
    /\ m_slist = [a \in Adapters |-> NullPtr]
    /\ adMovedFrom = [a \in Adapters |-> FALSE]
    /\ lastOp = NoOp

(* ---------------------- native curl_slist ------------------------------ *)

\* curl_slist_append(list, data): null on failure and the list is untouched;
\* otherwise the head of the list, a new one when list was null
curl_slist_append(ls, nx, list, data, ok) ==
    IF ~ok
      THEN [ret |-> NullPtr, lists |-> ls, next |-> nx]
      ELSE IF list = NullPtr
        THEN [ret |-> nx,
              lists |-> [ls EXCEPT ![nx] = [items |-> <<data>>, freed |-> 0]],
              next |-> nx + 1]
        ELSE [ret |-> list,
              lists |-> [ls EXCEPT ![list].items = Append(@, data)],
              next |-> nx]

\* curl_slist_free_all(list): nothing for null; the nodes of a freed list
\* are gone
curl_slist_free_all(ls, list) ==
    IF list = NullPtr
      THEN ls
      ELSE [ls EXCEPT ![list] = [items |-> <<>>, freed |-> @.freed + 1]]

(* ---------------------- class CurlStringList --------------------------- *)

\* append storing the result of curl_slist_append before the null check
append_StoresUnchecked(ls, nx, ms, value, ok) ==
    LET r == curl_slist_append(ls, nx, ms, value, ok)
    IN  [thrown |-> r.ret = NullPtr,
         slist |-> r.ret,
         lists |-> r.lists,
         next |-> r.next]

\* void CurlStringList::append(const std::string& value), on an adapter whose
\* m_slist is ms: the new pointer is stored only after the null check
append(ls, nx, ms, value, ok) ==
    LET r == curl_slist_append(ls, nx, ms, value, ok)
    IN  [thrown |-> r.ret = NullPtr,
         slist |-> IF r.ret = NullPtr THEN ms ELSE r.ret,
         lists |-> r.lists,
         next |-> r.next]

\* void CurlStringList::free_list()
free_list(ls, ms) ==
    [slist |-> NullPtr, lists |-> curl_slist_free_all(ls, ms)]

\* move construction that leaves other.m_slist as it was
StringListMoveCtor_KeepsSource(msl, n, other) ==
    [msl EXCEPT ![n] = msl[other]]

\* CurlStringList(CurlStringList&& other), constructing adapter n
StringListMoveCtor(msl, n, other) ==
    [msl EXCEPT ![n] = msl[other], ![other] = NullPtr]

\* move assignment without the test for self-assignment
StringListMoveAssign_NoSelfTest(msl, ls, this, other) ==
    LET f == free_list(ls, msl[this])
        freed == [msl EXCEPT ![this] = f.slist]
    IN  [m_slist |-> [freed EXCEPT ![this] = freed[other], ![other] = NullPtr],
         lists |-> f.lists]

\* move assignment that leaves other.m_slist as it was
StringListMoveAssign_KeepsSource(msl, ls, this, other) ==
    IF other # this
      THEN LET f == free_list(ls, msl[this])
           IN  [m_slist |-> [msl EXCEPT ![this] = msl[other]],
                lists |-> f.lists]
      ELSE [m_slist |-> msl, lists |-> ls]

\* CurlStringList& operator=(CurlStringList&& other)
StringListMoveAssign(msl, ls, this, other) ==
    IF other # this
      THEN LET f == free_list(ls, msl[this])
           IN  [m_slist |-> [msl EXCEPT ![this] = msl[other], ![other] = NullPtr],
                lists |-> f.lists]
      ELSE [m_slist |-> msl, lists |-> ls]

\* entries of the native list a pointer designates
Entries(ls, p) == IF p = NullPtr THEN <<>> ELSE ls[p].items

AdCtor(a) ==
    /\ adState[a] = "none"
    /\ adState' = [adState EXCEPT ![a] = "alive"]
    /\ m_slist' = [m_slist EXCEPT ![a] = NullPtr]
    /\ lastOp' = [op |-> "list_ctor", a |-> a, b |-> 0]
    /\ UNCHANGED <<lists, nextList, adMovedFrom>>
    /\ UNCHANGED curlVars
    /\ UNCHANGED getVars

AdAppend(a, line, ok) ==
    /\ adState[a] = "alive"
    /\ Len(Entries(lists, m_slist[a])) < MaxItems
    /\ m_slist[a] = NullPtr => nextList <= MaxLists
    /\ LET r == append(lists, nextList, m_slist[a], line, ok)
       IN  /\ m_slist' = [m_slist EXCEPT ![a] = r.slist]
           /\ lists' = r.lists
           /\ nextList' = r.next
           /\ adMovedFrom' = [adMovedFrom EXCEPT ![a] = @ /\ r.thrown]
           /\ lastOp' = [op |-> IF r.thrown THEN "list_append_failed" ELSE "list_append",
                         a |-> a, b |-> IF ok THEN 1 ELSE 0]
    /\ UNCHANGED adState
    /\ UNCHANGED curlVars
    /\ UNCHANGED getVars

AdMoveCtor(n, other) ==
    /\ adState[n] = "none"
    /\ adState[other] = "alive"
    /\ adState' = [adState EXCEPT ![n] = "alive"]
    /\ m_slist' = StringListMoveCtor(m_slist, n, other)
    /\ adMovedFrom' = [adMovedFrom EXCEPT ![n] = FALSE, ![other] = TRUE]
    /\ lastOp' = [op |-> "list_move_ctor", a |-> n, b |-> other]
    /\ UNCHANGED <<lists, nextList>>
    /\ UNCHANGED curlVars
    /\ UNCHANGED getVars

AdMoveAssign(this, other) ==
    /\ adState[this] = "alive"
    /\ adState[other] = "alive"
    /\ LET r == StringListMoveAssign(m_slist, lists, this, other)
       IN  /\ m_slist' = r.m_slist
           /\ lists' = r.lists
    /\ adMovedFrom' = IF other # this
                        THEN [adMovedFrom EXCEPT ![this] = FALSE, ![other] = TRUE]
                        ELSE adMovedFrom
    /\ lastOp' = [op |-> "list_move_assign", a |-> this, b |-> other]
    /\ UNCHANGED <<adState, nextList>>
    /\ UNCHANGED curlVars
    /\ UNCHANGED getVars

\* ~CurlStringList() { free_list(); }
AdDtor(a) ==
    /\ adState[a] = "alive"
    /\ LET f == free_list(lists, m_slist[a])
       IN  /\ m_slist' = [m_slist EXCEPT ![a] = f.slist]
           /\ lists' = f.lists
    /\ adState' = [adState EXCEPT ![a] = "destroyed"]
    /\ lastOp' = [op |-> "list_dtor", a |-> a, b |-> 0]
    /\ UNCHANGED <<nextList, adMovedFrom>>
    /\ UNCHANGED curlVars
    /\ UNCHANGED getVars

ListNext ==
    \/ \E a \in FreeAdapters : AdCtor(a)
    \/ \E a \in FreeAdapters, line \in Lines, ok \in BOOLEAN : AdAppend(a, line, ok)
    \/ \E n \in FreeAdapters, other \in FreeAdapters : AdMoveCtor(n, other)
    \/ \E this \in FreeAdapters, other \in FreeAdapters : AdMoveAssign(this, other)
    \/ \E a \in FreeAdapters : AdDtor(a)

ListSpec == Init /\ [][ListNext]_vars

(* ------------------------- class Curl ---------------------------------- *)

\* Curl::Curl(), first half: m_handle(nullptr), then curl_global_init.  The
\* call is made by every constructor; on a non-OK result the constructor
\* throws "curl_global_init failed" and no object exists.
CurlCtorGlobalInit(o, r) ==
    /\ objState[o] = "none"
    /\ m_handle' = [m_handle EXCEPT ![o] = NullPtr]
    /\ globalInitCalls' = globalInitCalls + 1
    /\ objState' = [objState EXCEPT ![o] = IF r # CURLE_OK THEN "init_failed" ELSE "ctor"]
    /\ UNCHANGED lastOp
    /\ UNCHANGED <<handle, movedFrom, globalCleanupCalls, easyCreated,
                   easyCleanupCalls>>
    /\ UNCHANGED getVars
    /\ UNCHANGED listVars

\* Curl::Curl(), second half: curl_easy_init into the local `handle`; null
\* throws.  The local is never stored into m_handle.
CurlCtorEasyInit(o, ok) ==
    /\ objState[o] = "ctor"
    /\ IF ok
         THEN /\ easyCreated' = easyCreated + 1
              /\ handle' = [handle EXCEPT ![o] = easyCreated + 1]
              /\ objState' = [objState EXCEPT ![o] = "alive"]
         ELSE /\ easyCreated' = easyCreated
              /\ handle' = [handle EXCEPT ![o] = NullPtr]
              /\ objState' = [objState EXCEPT ![o] = "failed"]
    /\ UNCHANGED lastOp
    /\ UNCHANGED <<m_handle, movedFrom, globalInitCalls, globalCleanupCalls,
                   easyCleanupCalls>>
    /\ UNCHANGED getVars
    /\ UNCHANGED listVars

\* Curl::release(): curl_global_cleanup and nothing else
release(cleanups) == cleanups + 1

\* Curl::~Curl() { release(); }
CurlDtor(o) ==
    /\ objState[o] = "alive"
    /\ pc[o] = "idle"
    /\ globalCleanupCalls' = release(globalCleanupCalls)
    /\ objState' = [objState EXCEPT ![o] = "destroyed"]
    /\ UNCHANGED lastOp
    /\ UNCHANGED <<m_handle, handle, movedFrom, globalInitCalls, easyCreated,
                   easyCleanupCalls>>
    /\ UNCHANGED getVars
    /\ UNCHANGED listVars

\* Curl::Curl(Curl&& other): a new object n takes other's m_handle
CurlMoveCtor(n, other) ==
    /\ objState[n] = "none"
    /\ objState[other] = "alive"
    /\ pc[other] = "idle"
    /\ m_handle' = [m_handle EXCEPT ![n] = m_handle[other], ![other] = NullPtr]
    /\ objState' = [objState EXCEPT ![n] = "alive"]
    /\ movedFrom' = [movedFrom EXCEPT ![n] = FALSE, ![other] = TRUE]
    /\ UNCHANGED lastOp
    /\ UNCHANGED <<handle, globalInitCalls, globalCleanupCalls, easyCreated,
                   easyCleanupCalls>>
    /\ UNCHANGED getVars
    /\ UNCHANGED listVars

\* Curl& Curl::operator=(Curl&& other)
CurlMoveAssign(this, other) ==
    /\ objState[this] = "alive"
    /\ objState[other] = "alive"
    /\ pc[this] = "idle"
    /\ pc[other] = "idle"
    /\ globalCleanupCalls < MaxCleanupCalls
    /\ IF other # this
         THEN /\ globalCleanupCalls' = release(globalCleanupCalls)
              /\ m_handle' = [m_handle EXCEPT ![this] = m_handle[other],
                                              ![other] = NullPtr]
              /\ movedFrom' = [movedFrom EXCEPT ![this] = FALSE, ![other] = TRUE]
         ELSE UNCHANGED <<globalCleanupCalls, m_handle, movedFrom>>
    /\ UNCHANGED lastOp
    /\ UNCHANGED <<objState, handle, globalInitCalls, easyCreated, easyCleanupCalls>>
    /\ UNCHANGED getVars
    /\ UNCHANGED listVars

CurlNext ==
    \/ \E o \in Objs, r \in Codes : CurlCtorGlobalInit(o, r)
    \/ \E o \in Objs, ok \in BOOLEAN : CurlCtorEasyInit(o, ok)
    \/ \E o \in Objs : CurlDtor(o)
    \/ \E n \in Objs, other \in Objs : CurlMoveCtor(n, other)
    \/ \E this \in Objs, other \in Objs : CurlMoveAssign(this, other)

(* --------------------------- Curl::get --------------------------------- *)

\* formatting without the space after the colon
Format_NoSpace(key, value) == key \o ":" \o value

\* header << key << ": " << value
Format(key, value) == key \o ": " \o value

\* the write callback installed by get: appends the chunk unless nmemb is 0
\* and reports nmemb
WriteCallback(resp, chunk) ==
    [response |-> IF Len(chunk) # 0 THEN resp \o chunk ELSE resp,
     consumed |-> Len(chunk)]

\* leaving get once `headers` exists, by a throw or at the closing brace:
\* ~CurlStringList runs, `response` and the parameters cease to exist (a
\* callback that captured `response` is left with a dangling reference)
Unwind(o, ls, ms) ==
    LET f == free_list(ls, ms)
    IN  /\ lists' = f.lists
        /\ m_slist' = [m_slist EXCEPT ![o] = f.slist]
        /\ adState' = [adState EXCEPT ![o] = "destroyed"]
        /\ headers' = [headers EXCEPT ![o] = <<>>]
        /\ remaining' = [remaining EXCEPT ![o] = {}]
        /\ response' = [response EXCEPT ![o] = ""]
        /\ nativeSink' = [h \in DOMAIN nativeSink |->
                              IF nativeSink[h].of = o
                                THEN Sink(o, FALSE)
                                ELSE nativeSink[h]]

\* a native call and what it returned: a CURLcode, or for
\* curl_slist_append 1 for a list and 0 for null
Call(name, r) == [call |-> name, r |-> r]

\* a URL step that records the error but goes on to install the callback
GetUrl_ContinuesOnFailure(o, hm, r) ==
    /\ objState[o] = "alive"
    /\ pc[o] = "idle"
    /\ getsStarted < MaxLists
    /\ getsStarted' = getsStarted + 1
    /\ delivered' = [delivered EXCEPT ![o] = <<>>]
    /\ lastCall' = [lastCall EXCEPT ![o] = Call("url", r)]
    /\ result' = [result EXCEPT ![o] =
           IF r # CURLE_OK
             THEN Res("Coded", "curl_easy_setopt (CURLOPT_URL) failed", r, "")
             ELSE NoResult]
    /\ pc' = [pc EXCEPT ![o] = "sink"]
    /\ headers' = [headers EXCEPT ![o] = hm]
    /\ UNCHANGED <<remaining, response, nativeSink, nativeHdr, lastOp>>
    /\ UNCHANGED curlVars
    /\ UNCHANGED listVars

\* curl_easy_setopt(m_handle, CURLOPT_URL, ...) and its check
GetUrl(o, hm, r) ==
    /\ objState[o] = "alive"
    /\ pc[o] = "idle"
    /\ getsStarted < MaxLists
    /\ getsStarted' = getsStarted + 1
    /\ delivered' = [delivered EXCEPT ![o] = <<>>]
    /\ lastCall' = [lastCall EXCEPT ![o] = Call("url", r)]
    /\ IF r # CURLE_OK
         THEN /\ result' = [result EXCEPT ![o] =
                    Res("Coded", "curl_easy_setopt (CURLOPT_URL) failed", r, "")]
              /\ pc' = pc
              /\ headers' = headers
         ELSE /\ result' = [result EXCEPT ![o] = NoResult]
              /\ pc' = [pc EXCEPT ![o] = "sink"]
              /\ headers' = [headers EXCEPT ![o] = hm]
    /\ UNCHANGED <<remaining, response, nativeSink, nativeHdr, lastOp>>
    /\ UNCHANGED curlVars
    /\ UNCHANGED listVars

\* std::string response; curl_easy_setopt(m_handle, CURLOPT_WRITEFUNCTION,
\* lambda) whose result is overwritten unread; then CurlStringList headers;
GetInstallSink(o, r) ==
    /\ pc[o] = "sink"
    /\ response' = [response EXCEPT ![o] = ""]
    /\ lastCall' = [lastCall EXCEPT ![o] = Call("sink", r)]
    /\ nativeSink' = IF r = CURLE_OK
                       THEN [nativeSink EXCEPT ![m_handle[o]] = Sink(o, TRUE)]
                       ELSE nativeSink
    /\ adState' = [adState EXCEPT ![o] = "alive"]
    /\ m_slist' = [m_slist EXCEPT ![o] = NullPtr]
    /\ remaining' = [remaining EXCEPT ![o] = DOMAIN headers[o]]
    /\ pc' = [pc EXCEPT ![o] = "headers"]
    /\ UNCHANGED <<headers, delivered, result, nativeHdr, getsStarted, lists,
                   nextList, adMovedFrom, lastOp>>
    /\ UNCHANGED curlVars

\* an iteration that swallows the failure of append and goes on to the next
\* entry
GetAppendHeader_ContinuesAfterFailure(o, key, ok) ==
    /\ pc[o] = "headers"
    /\ key \in remaining[o]
    /\ LET r == append(lists, nextList, m_slist[o], Format(key, headers[o][key]), ok)
       IN  /\ nextList' = r.next
           /\ lastCall' = [lastCall EXCEPT ![o] =
                  Call("append", IF ok THEN 1 ELSE 0)]
           /\ lists' = r.lists
           /\ m_slist' = [m_slist EXCEPT ![o] = r.slist]
           /\ remaining' = [remaining EXCEPT ![o] = @ \ {key}]
    /\ UNCHANGED <<adState, headers, response, result, pc, nativeSink>>
    /\ UNCHANGED <<delivered, nativeHdr, getsStarted, adMovedFrom, lastOp>>
    /\ UNCHANGED curlVars

\* one iteration of the range-for over the map (in the map's own order):
\* format the entry and append it; a failed append throws out of get
GetAppendHeader(o, key, ok) ==
    /\ pc[o] = "headers"
    /\ key \in remaining[o]
    /\ LET r == append(lists, nextList, m_slist[o], Format(key, headers[o][key]), ok)
       IN  /\ nextList' = r.next
           /\ lastCall' = [lastCall EXCEPT ![o] =
                  Call("append", IF ok THEN 1 ELSE 0)]
           /\ IF r.thrown
                THEN /\ Unwind(o, r.lists, r.slist)
                     /\ result' = [result EXCEPT ![o] =
                            Res("Generic", "curl_slist_append failed", NoCode, "")]
                     /\ pc' = [pc EXCEPT ![o] = "idle"]
                ELSE /\ lists' = r.lists
                     /\ m_slist' = [m_slist EXCEPT ![o] = r.slist]
                     /\ remaining' = [remaining EXCEPT ![o] = @ \ {key}]
                     /\ UNCHANGED <<adState, headers, response, result, pc,
                                    nativeSink>>
    /\ UNCHANGED <<delivered, nativeHdr, getsStarted, adMovedFrom, lastOp>>
    /\ UNCHANGED curlVars

\* curl_easy_setopt(m_handle, CURLOPT_HTTPHEADER, headers.native()) and its
\* check; the error is built from the message alone
GetAttach(o, r) ==
    /\ pc[o] = "headers"
    /\ remaining[o] = {}
    /\ lastCall' = [lastCall EXCEPT ![o] = Call("attach", r)]
    /\ IF r # CURLE_OK
         THEN /\ Unwind(o, lists, m_slist[o])
              /\ result' = [result EXCEPT ![o] =
                     Res("Coded", "curl_easy_setopt (CURLOPT_HTTPHEADER) failed",
                         NoCode, "")]
              /\ pc' = [pc EXCEPT ![o] = "idle"]
              /\ nativeHdr' = nativeHdr
         ELSE /\ nativeHdr' = [nativeHdr EXCEPT ![m_handle[o]] = m_slist[o]]
              /\ pc' = [pc EXCEPT ![o] = "attached"]
              /\ UNCHANGED <<lists, m_slist, adState, headers, remaining,
                             response, result, nativeSink>>
    /\ UNCHANGED <<delivered, getsStarted, nextList, adMovedFrom, lastOp>>
    /\ UNCHANGED curlVars

\* the end of get: curl_easy_perform is commented out, the locals are
\* destroyed and control flows off the end without a return statement, so
\* the caller reads an indeterminate std::string
GetEnd(o, v) ==
    /\ pc[o] = "attached"
    /\ Unwind(o, lists, m_slist[o])
    /\ result' = [result EXCEPT ![o] = Res("Bytes", "", NoCode, v)]
    /\ pc' = [pc EXCEPT ![o] = "idle"]
    /\ UNCHANGED <<delivered, nativeHdr, getsStarted, lastCall, nextList,
                   adMovedFrom, lastOp>>
    /\ UNCHANGED curlVars

GetNext ==
    \/ \E o \in Objs, hm \in HeaderMaps, r \in Codes : GetUrl(o, hm, r)
    \/ \E o \in Objs, r \in Codes : GetInstallSink(o, r)
    \/ \E o \in Objs, key \in HeaderNames, ok \in BOOLEAN : GetAppendHeader(o, key, ok)
    \/ \E o \in Objs, r \in Codes : GetAttach(o, r)
    \/ \E o \in Objs, v \in Indeterminate : GetEnd(o, v)

Next == CurlNext \/ GetNext

Spec == Init /\ [][Next]_vars

(* ============================ properties =============================== *)

InCtor == {o \in Objs : objState[o] = "ctor"}
Alive == {o \in Objs : objState[o] = "alive"}
Allocated == 1..(nextList - 1)
\* the native list the get in progress on o is building
Building(l) == \E o \in Objs : pc[o] # "idle" /\ m_slist[o] = l

RECURSIVE Concat(_)
Concat(chunks) ==
    IF chunks = <<>> THEN "" ELSE Head(chunks) \o Concat(Tail(chunks))

\* the accumulator after the write callback has taken the chunks in order
RECURSIVE FoldSink(_, _)
FoldSink(resp, chunks) ==
    IF chunks = <<>>
      THEN resp
      ELSE FoldSink(WriteCallback(resp, Head(chunks)).response, Tail(chunks))

RECURSIVE DropEmpty(_)
DropEmpty(chunks) ==
    IF chunks = <<>> THEN <<>>
    ELSE IF Head(chunks) = "" THEN DropEmpty(Tail(chunks))
    ELSE <<Head(chunks)>> \o DropEmpty(Tail(chunks))

\* C1: over any number of Curl constructions in one process,
\* curl_global_init is executed at most once in total.
C1_GlobalInitAtMostOnce == globalInitCalls <= 1

\* C2: curl_global_cleanup runs at most once and never while a Curl object
\* is alive: no teardown call has been made in a state where some object
\* is alive.
C2_NoTeardownWhileAlive ==
    /\ globalCleanupCalls <= 1
    /\ Alive # {} => globalCleanupCalls = 0

\* C3: when several threads are inside the Curl constructor at the same
\* time, past the initialization and before curl_easy_init, the global
\* initialization has run exactly once.
C3_ConcurrentInitExactlyOnce ==
    Cardinality(InCtor) >= 2 => globalInitCalls = 1

\* C4: the bytes a get returns are the concatenation, in delivery order, of
\* the chunks the transport passed to the write callback during that get.
C4_GetReturnsDeliveredChunks ==
    \A o \in Objs :
        result[o].kind = "Bytes" => result[o].val = Concat(delivered[o])

\* C5: a zero-length invocation of the write callback consumes 0 bytes and
\* leaves the accumulator as it was, so the bytes a get returns are those of
\* the accumulator fed with the non-empty chunks only (empty when every
\* chunk was zero-length).
C5_ZeroLengthChunksIgnored ==
    /\ \A r \in {"", "ab"} :
           WriteCallback(r, "") = [response |-> r, consumed |-> 0]
    /\ \A o \in Objs :
           result[o].kind = "Bytes" =>
               result[o].val = FoldSink("", DropEmpty(delivered[o]))

\* C6: when every append of a get succeeded and the list is attached, the
\* native list has exactly one entry per entry of the HeaderMap, each the
\* name, then a colon and a space, then the value.
C6_HeaderListMatchesMap ==
    \A o \in Objs :
        pc[o] = "attached" =>
            LET es == Entries(lists, m_slist[o])
            IN  /\ Len(es) = Cardinality(DOMAIN headers[o])
                /\ {es[i] : i \in 1..Len(es)} =
                       {k \o ":" \o " " \o headers[o][k] : k \in DOMAIN headers[o]}

C6_Witness ==
    \E o \in Objs :
        /\ pc[o] = "attached"
        /\ Cardinality(DOMAIN headers[o]) = 2
        /\ Len(Entries(lists, m_slist[o])) = 2

\* C7: once a Curl object has been destroyed without having been moved
\* from, the native transfer handle its constructor created has been
\* released by exactly one curl_easy_cleanup call.
C7_HandleReleasedOnce ==
    \A o \in Objs :
        (objState[o] = "destroyed" /\ ~movedFrom[o] /\ handle[o] # NullPtr) =>
            easyCleanupCalls[handle[o]] = 1

\* C8: a native header list is freed exactly once when the get that built
\* it returns, on every exit path: every allocated list is either the one a
\* get in progress is building, and not freed, or has been freed exactly
\* once.
C8_HeaderListFreedOnReturn ==
    \A l \in Allocated :
        IF Building(l) THEN lists[l].freed = 0 ELSE lists[l].freed = 1

\* the only get so far appended an entry and then failed on a later append
C8_Witness ==
    /\ getsStarted = 1
    /\ nextList = 2
    /\ lists[1].freed = 1
    /\ \E o \in Objs : pc[o] = "idle" /\ result[o].kind = "Generic"

\* C9: a moved-from Curl object holds no native handle, and destroying it
\* makes no native release or teardown call.
C9_MovedFromDtorIsNoop ==
    [][/\ \A o \in Objs : movedFrom'[o] => m_handle'[o] = NullPtr
       /\ \A o \in Objs :
              (movedFrom[o] /\ objState[o] = "alive" /\ objState'[o] = "destroyed") =>
                  /\ globalCleanupCalls' = globalCleanupCalls
                  /\ easyCleanupCalls' = easyCleanupCalls]_vars

IsListMove(op) == op.op \in {"list_move_ctor", "list_move_assign"}

\* C10 as stated: after any move construction or move assignment of a
\* CurlStringList the source's pointer is null and the destination holds the
\* pointer the source had; destroying a moved-from adapter frees nothing.
C10_MoveNullsSource ==
    [][/\ IsListMove(lastOp') =>
              /\ m_slist'[lastOp'.b] = NullPtr
              /\ m_slist'[lastOp'.a] = m_slist[lastOp'.b]
       /\ (lastOp'.op = "list_dtor" /\ adMovedFrom[lastOp'.a]) => lists' = lists]_vars

\* C10 amended: the same for a move construction, and for a move assignment
\* whose source is a different adapter than its destination.
C10_MoveNullsDistinctSource ==
    [][/\ (IsListMove(lastOp') /\ lastOp'.a # lastOp'.b) =>
              /\ m_slist'[lastOp'.b] = NullPtr
              /\ m_slist'[lastOp'.a] = m_slist[lastOp'.b]
       /\ (lastOp'.op = "list_dtor" /\ adMovedFrom[lastOp'.a]) => lists' = lists]_vars

\* a moved-from adapter has just been destroyed while the adapter that took
\* its list still holds it, unfreed
C10_Witness ==
    /\ lastOp.op = "list_dtor"
    /\ adMovedFrom[lastOp.a]
    /\ \E a \in FreeAdapters :
           /\ adState[a] = "alive"
           /\ m_slist[a] # NullPtr
           /\ lists[m_slist[a]].freed = 0

\* C11: over any sequence of appends, moves, move assignments and
\* destructions of CurlStringList objects no native list is freed more than
\* once: a list has one owner at most, an owner never holds a freed list,
\* and an adapter that is destroyed or has released its list holds none, so
\* releasing it again frees nothing.
C11_NoDoubleFree ==
    /\ \A l \in ListIds : lists[l].freed <= 1
    /\ \A a \in FreeAdapters :
           /\ m_slist[a] # NullPtr => lists[m_slist[a]].freed = 0
           /\ adState[a] = "destroyed" => m_slist[a] = NullPtr
    /\ \A a, b \in FreeAdapters :
           (a # b /\ m_slist[a] # NullPtr) => m_slist[a] # m_slist[b]

\* a list went from one adapter to another and every adapter has been
\* destroyed, the moved-from one included: the list was freed once
C11_Witness ==
    /\ \A a \in FreeAdapters : adState[a] = "destroyed"
    /\ \E a \in FreeAdapters : adMovedFrom[a]
    /\ \E l \in Allocated : lists[l].freed = 1

IsListAppend(op) == op.op \in {"list_append", "list_append_failed"}

\* C12: when curl_slist_append returns null, append throws and the
\* adapter's pointer and the native lists are what they were before the
\* call.
C12_FailedAppendChangesNothing ==
    [][(IsListAppend(lastOp') /\ lastOp'.b = 0) =>
           /\ lastOp'.op = "list_append_failed"
           /\ m_slist' = m_slist
           /\ lists' = lists
           /\ nextList' = nextList]_vars

\* an append has just failed on an adapter that holds a list with an entry
C12_Witness ==
    /\ lastOp.op = "list_append_failed"
    /\ m_slist[lastOp.a] # NullPtr
    /\ Len(Entries(lists, m_slist[lastOp.a])) >= 1

\* C13: when an append fails during get, that get makes no further native
\* call (no append for the remaining entries, no attach, no transfer), its
\* header list is released, and it ends with the adapter's Generic error
\* "curl_slist_append failed", the only error of that get.
C13_AppendFailureAbortsGet ==
    \A o \in Objs :
        lastCall[o] = Call("append", 0) =>
            /\ pc[o] = "idle"
            /\ result[o] = Res("Generic", "curl_slist_append failed", NoCode, "")
            /\ m_slist[o] = NullPtr
            /\ adState[o] = "destroyed"

\* the second append of the only get so far failed after the first succeeded
C13_Witness ==
    /\ getsStarted = 1
    /\ \E o \in Objs :
           /\ lastCall[o] = Call("append", 0)
           /\ result[o].kind = "Generic"
    /\ \E l \in ListIds : l < nextList /\ lists[l].freed = 1

\* C14 as stated: when the URL setopt returns a non-success status s, get
\* ends with a Coded error whose message is "URL configuration failed" and
\* whose code is s, and makes no later native call.
C14_UrlFailureMessage ==
    \A o \in Objs :
        (lastCall[o].call = "url" /\ lastCall[o].r # CURLE_OK) =>
            /\ pc[o] = "idle"
            /\ result[o] = Res("Coded", "URL configuration failed",
                               lastCall[o].r, "")

\* C14 amended: when the URL setopt returns a non-success status s, get ends
\* with a Coded error whose message is "curl_easy_setopt (CURLOPT_URL)
\* failed" and whose code is s, and makes no later native call (no callback
\* install, no header list, no attach, no transfer).
C14_UrlFailureAbortsGet ==
    \A o \in Objs :
        (lastCall[o].call = "url" /\ lastCall[o].r # CURLE_OK) =>
            /\ pc[o] = "idle"
            /\ result[o] = Res("Coded", "curl_easy_setopt (CURLOPT_URL) failed",
                               lastCall[o].r, "")
            /\ adState[o] # "alive"

\* a get whose URL setopt returned CURLE_OUT_OF_MEMORY has ended with it
C14_Witness ==
    \E o \in Objs :
        /\ lastCall[o] = Call("url", 27)
        /\ result[o].kind = "Coded"
        /\ result[o].code = 27

\* C15: when the CURLOPT_HTTPHEADER setopt returns a non-success status s,
\* get ends with a Coded error that carries s as its code, and performs no
\* transfer.
C15_AttachFailureKeepsStatus ==
    \A o \in Objs :
        (lastCall[o].call = "attach" /\ lastCall[o].r # CURLE_OK) =>
            /\ pc[o] = "idle"
            /\ result[o].kind = "Coded"
            /\ result[o].code = lastCall[o].r

\* C16: a get does not end right after a successful attach: it performs the
\* transfer, and it ends with bytes only when the transfer returned success
\* and with a Coded error carrying the status when the transfer failed.
C16_TransferPerformed ==
    \A o \in Objs :
        (pc[o] = "idle" /\ lastCall[o].call # "none") =>
            /\ lastCall[o] # Call("attach", CURLE_OK)
            /\ result[o].kind \in {"Bytes", "Coded", "Generic"}
            /\ result[o].kind = "Bytes" => lastCall[o] = Call("perform", CURLE_OK)
            /\ (lastCall[o].call = "perform" /\ lastCall[o].r # CURLE_OK) =>
                   (result[o].kind = "Coded" /\ result[o].code = lastCall[o].r)

\* C17: once curl_global_init has failed in a construction, no later
\* construction calls it again: initialization is not retried, so every
\* later construction fails and no native handle is created afterwards.
C17_InitFailureIsFatal ==
    [][(\E p \in Objs : objState[p] = "init_failed") =>
           globalInitCalls' = globalInitCalls]_vars

\* the native call `new` may follow the native call `prev` of the same object
InOrder(prev, new) ==
    \/ new.call = "url"
    \/ new.call = "sink" /\ prev = Call("url", CURLE_OK)
    \/ new.call = "append" /\ (prev.call = "sink" \/ prev = Call("append", 1))
    \/ new.call = "attach" /\ (prev.call = "sink" \/ prev = Call("append", 1))
    \/ new.call = "perform" /\ prev = Call("attach", CURLE_OK)

C19_SinkInstallChecked ==
    \A o \in Objs :
        (lastCall[o].call = "sink" /\ lastCall[o].r # CURLE_OK) =>
            /\ pc[o] = "idle"
            /\ result[o].kind \in {"Coded", "Generic"}

C21_CtorStoresHandle ==
    [][\A o \in Objs :
           (objState[o] = "ctor" /\ objState'[o] = "alive") =>
               /\ m_handle'[o] # NullPtr
               /\ m_handle'[o] = handle'[o]]_vars

\* the lines a get on o formats from its HeaderMap
OwnLines(o) == {Format(k, headers[o][k]) : k \in DOMAIN headers[o]}

\* C22: two gets in progress at the same time on two distinct Curl objects
\* share nothing: they work on different native handles and different
\* native lists, the list of each holds only lines of its own HeaderMap,
\* and the callback on the handle of each, if one is installed, writes to
\* its own accumulator.
C22_ConcurrentGetsIndependent ==
    \A o, p \in Objs :
        (o # p /\ pc[o] \in {"headers", "attached"}
               /\ pc[p] \in {"headers", "attached"}) =>
            /\ m_handle[o] # m_handle[p]
            /\ m_slist[o] # NullPtr => m_slist[o] # m_slist[p]
            /\ LET es == Entries(lists, m_slist[o])
               IN  {es[i] : i \in 1..Len(es)} \subseteq OwnLines(o)
            /\ nativeSink[m_handle[o]].of \in {0, o}

\* C23: a move assignment onto an adapter that owns a native list, from a
\* different adapter, frees that list exactly once and no other list, and
\* the destination then holds the list the source had while the source
\* holds none; a self-move-assignment changes no pointer and frees nothing.
C23_MoveAssignFreesPrevious ==
    [][lastOp'.op = "list_move_assign" =>
           LET this == lastOp'.a
               other == lastOp'.b
               old == m_slist[this]
           IN  IF other # this
                 THEN /\ m_slist'[this] = m_slist[other]
                      /\ m_slist'[other] = NullPtr
                      /\ old # NullPtr => lists'[old].freed = lists[old].freed + 1
                      /\ \A l \in ListIds \ {old} : lists'[l] = lists[l]
                 ELSE /\ m_slist' = m_slist
                      /\ lists' = lists]_vars

\* no adapter has been destroyed, and a move assignment from a different
\* adapter has just replaced a list, now freed once, by another, unfreed
C23_Witness ==
    /\ lastOp.op = "list_move_assign"
    /\ lastOp.a # lastOp.b
    /\ \A a \in FreeAdapters : adState[a] # "destroyed"
    /\ m_slist[lastOp.a] # NullPtr
    /\ lists[m_slist[lastOp.a]].freed = 0
    /\ \E l \in ListIds : lists[l].freed = 1

\* an adapter that owns a list has just been move-assigned to itself
C23_SelfWitness ==
    /\ lastOp.op = "list_move_assign"
    /\ lastOp.a = lastOp.b
    /\ m_slist[lastOp.a] # NullPtr
    /\ lists[m_slist[lastOp.a]].freed = 0
    /\ Len(Entries(lists, m_slist[lastOp.a])) >= 1

====
